---- MODULE Spec2Model ----
(***************************************************************************)
(* Model of the iSmartGateLight accessory (src/src/index.ts, the second,   *)
(* final version of the class, lines 229-377).                             *)
(*                                                                         *)
(* The plugin runs on the Node.js event loop.  Each action below is one    *)
(* run-to-completion job: the synchronous SET / GET handlers, or the       *)
(* continuation of an async function after one of its awaits settles.      *)
(* Every call of the SET handler starts a chain of asynchronous work       *)
(* (command, possibly login, possibly command again ...); the login        *)
(* started by the constructor is a chain of its own.                       *)
(***************************************************************************)
EXTENDS Integers, Sequences, FiniteSets

VARIABLES
    lightOn,     \* this.lightOn  (index.ts:238)
    webtoken,    \* this.webtoken (index.ts:237, 251, 301)
    cookieJar,   \* this.cookieJar (index.ts:239): the session cookie it holds
    chains,      \* the asynchronous call chains started so far
    sent,        \* history: command requests (light.php) sent since the initial state
    lastSet,     \* history: value passed to the most recent SET (FALSE before the first)
    lastRequest, \* history: the command request sent last
    uncaught,    \* an exception or rejection escaped a handler or a promise
    event        \* history: the job that ran last and its input (GET: its result)

vars == <<lightOn, webtoken, cookieJar, chains, sent, lastSet, lastRequest, uncaught, event>>

----------------------------------------------------------------------------
(* Bounds of the model *)

\* command requests (light.php) of one run, over all chains: the host
\* delivers a SET, and the device answers "Restricted Access", only while
\* the command request that follows from it fits
MaxRequests == 3

----------------------------------------------------------------------------
(* Values *)

Undefined == "undefined"          \* JavaScript's undefined, as a token value
Missing == "missing"              \* a configuration page without #webtoken
Restricted == "Restricted Access"

\* values of the webtoken element the device may serve
Tokens == {"t1", "t2"}
\* what the configuration page's #webtoken element holds
Pages == Tokens \cup {Missing}
\* session cookie values the device may set; NoCookie: the response sets none
NoCookie == "none"
SessionIds == {"s1"}
\* raw response bodies of light.php
Bodies == {"0", "1", Restricted, "", "Error"}

NaN == -1

\* JavaScript ToNumber of a response body (axios hands "0" and "1" over as
\* the numbers 0 and 1, any other text as a string; == converts a string
\* operand with ToNumber, the empty string to 0)
ToNumber(body) ==
    CASE body = "0" -> 0
      [] body = "1" -> 1
      [] body = ""  -> 0
      [] OTHER      -> NaN

\* res.data == n  (n a number)
LooseEqualsNumber(body, n) == ToNumber(body) = n

\* res.data == "Restricted Access"
LooseEqualsRestricted(body) == body = Restricted

\* light=<index> in the request URL
LightIndex(dir) == IF dir = "on" THEN 0 ELSE 1

\* (variant for C12: the response is compared with the light index sent)
SuccessDigit_LightIndex(dir) == LightIndex(dir)

\* the number the response is compared with in the first branch
SuccessDigit(dir) == IF dir = "on" THEN 1 ELSE 0

\* the direction the SET handler picks for a value
Direction(value) == IF value THEN "on" ELSE "off"

----------------------------------------------------------------------------
(* Asynchronous call chains *)

\* Positions of a chain:
\*   "cmdWait"    turnLightOn/Off awaits axios.get of light.php
\*   "postWait"   login awaits axios.post of index.php
\*   "getWait"    login awaits axios.get of the configuration page
\*   "loginDone"  login's promise is resolved, its then-callback is queued
\*   "done"       nothing left to run
ChainIds == 1..Len(chains)

IsCommand(c) == c.dir \in {"on", "off"}

\* a microtask (the then-callback of a resolved login) is queued: it runs
\* before the event loop delivers the next I/O event or host event
MicrotaskQueued == \E i \in ChainIds : chains[i].pc = "loginDone"

\* (variant for C4: every answer but the success digit is taken as an expired
\* session)
Branch_RetryUnlessSuccess(dir, body) ==
    IF LooseEqualsNumber(body, SuccessDigit(dir)) THEN "success" ELSE "login"

\* the branch turnLightOn / turnLightOff takes on res.data
Branch(dir, body) ==
    IF LooseEqualsNumber(body, SuccessDigit(dir)) THEN "success"
    ELSE IF LooseEqualsRestricted(body) THEN "login"
    ELSE "norespond"

\* tough-cookie stores the Set-Cookie of a response, replacing the cookie of
\* the same name
StoreCookie(jar, setCookie) == IF setCookie = NoCookie THEN jar ELSE setCookie

\* (variant for C5: $('#webtoken').text(), which an input element has none of)
Val_Text(page) == IF page = Missing THEN Undefined ELSE ""

\* $('#webtoken').val(): the value attribute, undefined without the element
Val(page) == IF page = Missing THEN Undefined ELSE page

\* the URL of a command request: light=<index>&webtoken=<token>
Request(dir, tok) == [light |-> LightIndex(dir), token |-> tok]
NoRequest == [light |-> -1, token |-> "-"]

\* the chain of the constructor: this.login() with no continuation
ConstructorChain ==
    [dir |-> "ctor", pc |-> "postWait", cmds |-> 0, logins |-> 1, cb |-> FALSE]

\* the chain a SET starts, before turnLightOn / turnLightOff is called
NewChain(value) ==
    [dir |-> Direction(value), pc |-> "start", cmds |-> 0, logins |-> 0, cb |-> FALSE]

\* turnLightOn() / turnLightOff() up to its await: the request is sent
TurnLight(c) == [c EXCEPT !.pc = "cmdWait", !.cmds = @ + 1]

\* this.login() up to its first await: the POST is sent
StartLogin(c) == [c EXCEPT !.pc = "postWait", !.logins = @ + 1]

\* a chain that has nothing left to run: its frame is gone
Finished == [dir |-> "-", pc |-> "done", cmds |-> 0, logins |-> 0, cb |-> FALSE]

\* login() returns: a command chain has the then-callback queued, the
\* constructor dropped the promise
LoginReturns(c) == IF IsCommand(c) THEN [c EXCEPT !.pc = "loginDone"] ELSE Finished

\* command requests sent, plus those the logins under way will be followed by
Committed ==
    sent + Cardinality({i \in ChainIds : /\ IsCommand(chains[i])
                                          /\ chains[i].pc \in {"postWait", "getWait", "loginDone"}})

\* the record kept of the job that ran last; log: the line a command's
\* response handling wrote with this.log.info, outside of debug mode
Event(op, arg) == [op |-> op, arg |-> arg, log |-> "-"]

\* 'Light Turned On' / 'Light Turned Off', 'Error: Light did not respond'
LogLine(branch) ==
    CASE branch = "success"   -> "Light Turned"
      [] branch = "norespond" -> "Error: Light did not respond"
      [] OTHER                -> "-"

BoolText(b) == IF b THEN "true" ELSE "false"

----------------------------------------------------------------------------
(* State after construction: fields initialised, login() started and not   *)
(* awaited, handlers registered                                            *)

Init ==
    /\ lightOn = FALSE
    /\ webtoken = ""
    /\ cookieJar = NoCookie
    /\ chains = <<ConstructorChain>>
    /\ sent = 0
    /\ lastSet = FALSE
    /\ lastRequest = NoRequest
    /\ uncaught = FALSE
    /\ event = Event("constructor", "-")

----------------------------------------------------------------------------
(* Handlers registered with the host *)

\* GET handler: callback(undefined, this.lightOn)
GetOn ==
    /\ ~MicrotaskQueued
    /\ event' = Event("getOn", BoolText(lightOn))
    /\ UNCHANGED <<lightOn, webtoken, cookieJar, chains, sent, lastSet, lastRequest, uncaught>>

\* (variant for C8: the handler awaits the command before it calls back)
SetOn_CallbackAfterCommand(value) ==
    /\ ~MicrotaskQueued
    /\ Committed < MaxRequests
    /\ lightOn' = value
    /\ chains' = Append(chains, TurnLight(NewChain(value)))
    /\ sent' = sent + 1
    /\ lastRequest' = Request(Direction(value), webtoken)
    /\ lastSet' = value
    /\ event' = Event("setOn", BoolText(value))
    /\ UNCHANGED <<webtoken, cookieJar, uncaught>>

\* (variant for C16: the handler serves no toggle before the constructor's
\* login has returned)
SetOn_AfterFirstLogin(value) ==
    /\ ~MicrotaskQueued
    /\ Committed < MaxRequests
    /\ chains[1] = Finished
    /\ lightOn' = value
    /\ chains' = Append(chains, [TurnLight(NewChain(value)) EXCEPT !.cb = TRUE])
    /\ sent' = sent + 1
    /\ lastRequest' = Request(Direction(value), webtoken)
    /\ lastSet' = value
    /\ event' = Event("setOn", BoolText(value))
    /\ UNCHANGED <<webtoken, cookieJar, uncaught>>

\* SET handler: store the value, start the command (not awaited), callback()
SetOn(value) ==
    /\ ~MicrotaskQueued
    /\ Committed < MaxRequests
    /\ lightOn' = value
    /\ chains' = Append(chains, [TurnLight(NewChain(value)) EXCEPT !.cb = TRUE])
    /\ sent' = sent + 1
    /\ lastRequest' = Request(Direction(value), webtoken)
    /\ lastSet' = value
    /\ event' = Event("setOn", BoolText(value))
    /\ UNCHANGED <<webtoken, cookieJar, uncaught>>

----------------------------------------------------------------------------
(* turnLightOn / turnLightOff after the await *)

\* (variant for C9: the "did not respond" branch takes the commanded state back)
CmdResponse_Reverts(i, body, setCookie) ==
    /\ ~MicrotaskQueued
    /\ chains[i].pc = "cmdWait"
    /\ body = Restricted => Committed < MaxRequests
    /\ chains' = [chains EXCEPT ![i] =
                    IF Branch(chains[i].dir, body) = "login" THEN StartLogin(chains[i])
                    ELSE Finished]
    /\ lightOn' = IF Branch(chains[i].dir, body) = "norespond"
                  THEN chains[i].dir # "on" ELSE lightOn
    /\ cookieJar' = StoreCookie(cookieJar, setCookie)
    /\ event' = [Event("cmdResponse", body) EXCEPT !.log = LogLine(Branch(chains[i].dir, body))]
    /\ UNCHANGED <<webtoken, sent, lastSet, lastRequest, uncaught>>

\* (variant for C13: while a login is in flight no second one is started)
CmdResponse_SingleLogin(i, body, setCookie) ==
    /\ ~MicrotaskQueued
    /\ chains[i].pc = "cmdWait"
    /\ body = Restricted => Committed < MaxRequests
    /\ chains' = [chains EXCEPT ![i] =
                    IF /\ Branch(chains[i].dir, body) = "login"
                       /\ \A j \in ChainIds : chains[j].pc \notin {"postWait", "getWait"}
                    THEN StartLogin(chains[i])
                    ELSE Finished]
    /\ cookieJar' = StoreCookie(cookieJar, setCookie)
    /\ event' = [Event("cmdResponse", body) EXCEPT !.log = LogLine(Branch(chains[i].dir, body))]
    /\ UNCHANGED <<lightOn, webtoken, sent, lastSet, lastRequest, uncaught>>

\* (variant for C17: a rejected token is dropped)
CmdResponse_ClearsToken(i, body, setCookie) ==
    /\ ~MicrotaskQueued
    /\ chains[i].pc = "cmdWait"
    /\ body = Restricted => Committed < MaxRequests
    /\ chains' = [chains EXCEPT ![i] =
                    IF Branch(chains[i].dir, body) = "login"
                    THEN StartLogin(chains[i])
                    ELSE Finished]
    /\ webtoken' = IF Branch(chains[i].dir, body) = "login" THEN "" ELSE webtoken
    /\ cookieJar' = StoreCookie(cookieJar, setCookie)
    /\ event' = [Event("cmdResponse", body) EXCEPT !.log = LogLine(Branch(chains[i].dir, body))]
    /\ UNCHANGED <<lightOn, sent, lastSet, lastRequest, uncaught>>

\* the response arrived: three-way branch on res.data
CmdResponse(i, body, setCookie) ==
    /\ ~MicrotaskQueued
    /\ chains[i].pc = "cmdWait"
    /\ body = Restricted => Committed < MaxRequests
    /\ chains' = [chains EXCEPT ![i] =
                    IF Branch(chains[i].dir, body) = "login" THEN StartLogin(chains[i])
                    ELSE Finished]
    /\ cookieJar' = StoreCookie(cookieJar, setCookie)
    /\ event' = [Event("cmdResponse", body) EXCEPT !.log = LogLine(Branch(chains[i].dir, body))]
    /\ UNCHANGED <<lightOn, webtoken, sent, lastSet, lastRequest, uncaught>>

\* (variant for C3: the catch block takes the commanded state back)
CmdError_Reverts(i) ==
    /\ ~MicrotaskQueued
    /\ chains[i].pc = "cmdWait"
    /\ chains' = [chains EXCEPT ![i] = Finished]
    /\ lightOn' = (chains[i].dir # "on")
    /\ event' = Event("cmdError", "-")
    /\ UNCHANGED <<webtoken, cookieJar, sent, lastSet, lastRequest, uncaught>>

\* (variant for C10: the catch block logs in again, as the "Restricted
\* Access" branch does)
CmdError_Relogin(i) ==
    /\ ~MicrotaskQueued
    /\ chains[i].pc = "cmdWait"
    /\ Committed < MaxRequests
    /\ chains' = [chains EXCEPT ![i] = StartLogin(chains[i])]
    /\ event' = Event("cmdError", "-")
    /\ UNCHANGED <<lightOn, webtoken, cookieJar, sent, lastSet, lastRequest, uncaught>>

\* the request rejected: catch (err) { console.error(err) }
CmdError(i) ==
    /\ ~MicrotaskQueued
    /\ chains[i].pc = "cmdWait"
    /\ chains' = [chains EXCEPT ![i] = Finished]
    /\ event' = Event("cmdError", "-")
    /\ UNCHANGED <<lightOn, webtoken, cookieJar, sent, lastSet, lastRequest, uncaught>>

\* (variant for C2: the then-callback picks the function by this.lightOn)
LoginThen_ByState(i) ==
    /\ chains[i].pc = "loginDone"
    /\ chains' = [chains EXCEPT ![i] = TurnLight([chains[i] EXCEPT !.dir = Direction(lightOn)])]
    /\ sent' = sent + 1
    /\ lastRequest' = Request(Direction(lightOn), webtoken)
    /\ event' = Event("loginThen", "-")
    /\ UNCHANGED <<lightOn, webtoken, cookieJar, lastSet, uncaught>>

\* (variant for C14: the retry sends the URL of the last request once more)
LoginThen_SameUrl(i) ==
    /\ chains[i].pc = "loginDone"
    /\ chains' = [chains EXCEPT ![i] = TurnLight(chains[i])]
    /\ sent' = sent + 1
    /\ lastRequest' = Request(chains[i].dir, lastRequest.token)
    /\ event' = Event("loginThen", "-")
    /\ UNCHANGED <<lightOn, webtoken, cookieJar, lastSet, uncaught>>

\* login().then(() => { this.turnLightOn() }): the same function again
LoginThen(i) ==
    /\ chains[i].pc = "loginDone"
    /\ chains' = [chains EXCEPT ![i] = TurnLight(chains[i])]
    /\ sent' = sent + 1
    /\ lastRequest' = Request(chains[i].dir, webtoken)
    /\ event' = Event("loginThen", "-")
    /\ UNCHANGED <<lightOn, webtoken, cookieJar, lastSet, uncaught>>

----------------------------------------------------------------------------
(* login after each await *)

\* the POST resolved: log, then send the GET of the configuration page
LoginPostResponse(i, setCookie) ==
    /\ ~MicrotaskQueued
    /\ chains[i].pc = "postWait"
    /\ chains' = [chains EXCEPT ![i] = [@ EXCEPT !.pc = "getWait"]]
    /\ cookieJar' = StoreCookie(cookieJar, setCookie)
    /\ event' = Event("loginPostResponse", "-")
    /\ UNCHANGED <<lightOn, webtoken, sent, lastSet, lastRequest, uncaught>>

\* the POST rejected: caught and logged, login returns
LoginPostError(i) ==
    /\ ~MicrotaskQueued
    /\ chains[i].pc = "postWait"
    /\ chains' = [chains EXCEPT ![i] = LoginReturns(chains[i])]
    /\ event' = Event("loginPostError", "-")
    /\ UNCHANGED <<lightOn, webtoken, cookieJar, sent, lastSet, lastRequest, uncaught>>

\* the GET resolved: parse the page, assign the element's value
LoginGetResponse(i, page, setCookie) ==
    /\ ~MicrotaskQueued
    /\ chains[i].pc = "getWait"
    /\ webtoken' = Val(page)
    /\ chains' = [chains EXCEPT ![i] = LoginReturns(chains[i])]
    /\ cookieJar' = StoreCookie(cookieJar, setCookie)
    /\ event' = Event("loginGetResponse", page)
    /\ UNCHANGED <<lightOn, sent, lastSet, lastRequest, uncaught>>

\* (variant for C6: the catch block rethrows, login's promise rejects and its
\* then-callback is not called)
LoginGetError_Rethrows(i) ==
    /\ ~MicrotaskQueued
    /\ chains[i].pc = "getWait"
    /\ chains' = [chains EXCEPT ![i] = Finished]
    /\ uncaught' = TRUE
    /\ event' = Event("loginGetError", "-")
    /\ UNCHANGED <<lightOn, webtoken, cookieJar, sent, lastSet, lastRequest>>

\* the GET rejected: caught and logged, login returns
LoginGetError(i) ==
    /\ ~MicrotaskQueued
    /\ chains[i].pc = "getWait"
    /\ chains' = [chains EXCEPT ![i] = LoginReturns(chains[i])]
    /\ event' = Event("loginGetError", "-")
    /\ UNCHANGED <<lightOn, webtoken, cookieJar, sent, lastSet, lastRequest, uncaught>>

----------------------------------------------------------------------------

Next ==
    \/ GetOn
    \/ \E value \in BOOLEAN : SetOn(value)
    \/ \E i \in ChainIds, body \in Bodies, setCookie \in SessionIds \cup {NoCookie} :
          CmdResponse(i, body, setCookie)
    \/ \E i \in ChainIds : CmdError(i)
    \/ \E i \in ChainIds : LoginThen(i)
    \/ \E i \in ChainIds, setCookie \in SessionIds \cup {NoCookie} :
          LoginPostResponse(i, setCookie)
    \/ \E i \in ChainIds : LoginPostError(i)
    \/ \E i \in ChainIds, page \in Pages, setCookie \in SessionIds \cup {NoCookie} :
          LoginGetResponse(i, page, setCookie)
    \/ \E i \in ChainIds : LoginGetError(i)

Spec == Init /\ [][Next]_vars

----------------------------------------------------------------------------
(* Two overlapping toggles.  The run starts where the constructor's login   *)
(* has set token and cookie, setOn(true) and then setOn(false) were called  *)
(* and both commands are in flight; the host delivers nothing further.      *)

OverlappingToggles ==
    <<Finished,
      [TurnLight(NewChain(TRUE)) EXCEPT !.cb = TRUE],
      [TurnLight(NewChain(FALSE)) EXCEPT !.cb = TRUE]>>

InitRace ==
    /\ lightOn = FALSE
    /\ webtoken = "t1"
    /\ cookieJar = "s1"
    /\ chains = OverlappingToggles
    /\ sent = 0
    /\ lastSet = FALSE
    /\ lastRequest = Request("off", "t1")
    /\ uncaught = FALSE
    /\ event = Event("setOn", "false")

NextRace ==
    \/ \E i \in ChainIds, body \in Bodies, setCookie \in SessionIds \cup {NoCookie} :
          CmdResponse(i, body, setCookie)
    \/ \E i \in ChainIds : CmdError(i)
    \/ \E i \in ChainIds : LoginThen(i)
    \/ \E i \in ChainIds, setCookie \in SessionIds \cup {NoCookie} :
          LoginPostResponse(i, setCookie)
    \/ \E i \in ChainIds : LoginPostError(i)
    \/ \E i \in ChainIds, page \in Pages, setCookie \in SessionIds \cup {NoCookie} :
          LoginGetResponse(i, page, setCookie)
    \/ \E i \in ChainIds : LoginGetError(i)

SpecRace == InitRace /\ [][NextRace]_vars

----------------------------------------------------------------------------
(* Vocabulary of the properties *)

\* chain i is the one the step worked on (a step changes one chain)
Stepped(i) == chains'[i] # chains[i]

\* no login is started in the step: no chain newly awaits a login POST
NoLoginStarted == \A j \in ChainIds : chains'[j].pc = "postWait" => chains[j].pc = "postWait"

\* no command request is sent in the step
NoCommandSent == sent' = sent /\ lastRequest' = lastRequest

\* toggles (chains of SET events) started so far
Toggles == Len(chains) - 1

----------------------------------------------------------------------------
(* C1 *)

\* C1 (as claimed): one toggle causes at most one login and at most two
\* command requests, however often the device answers "Restricted Access".
C1_AtMostOneRetryPerToggle ==
    \A i \in ChainIds : IsCommand(chains[i]) => chains[i].logins <= 1 /\ chains[i].cmds <= 2

----------------------------------------------------------------------------
(* C2 *)

\* C2: a "Restricted Access" answer to a command starts exactly one login and
\* sends no command; nothing else starts a login; while that login is in
\* flight the chain sends no command; when the login has returned, after a
\* success or after a failure, the next job re-issues the command of the same
\* direction exactly once (the chain has sent one command more than it has
\* started logins exactly while it awaits a command).
C2_RestrictedStartsLoginThenRetry ==
    [][\A i \in ChainIds :
         LET c == chains[i]
             d == chains'[i]
         IN  IsCommand(c) =>
               /\ c.cmds = c.logins + (IF c.pc = "cmdWait" THEN 1 ELSE 0)
               /\ (c.pc = "cmdWait" /\ Stepped(i) /\ event'.op = "cmdResponse"
                     /\ event'.arg = Restricted)
                    => /\ d = [c EXCEPT !.pc = "postWait", !.logins = c.logins + 1]
                       /\ NoCommandSent
               /\ d.logins > c.logins
                    => c.pc = "cmdWait" /\ event'.op = "cmdResponse" /\ event'.arg = Restricted
               /\ (c.pc \in {"postWait", "getWait"} /\ Stepped(i))
                    => /\ d.pc \in {"getWait", "loginDone"}
                       /\ d.cmds = c.cmds /\ d.logins = c.logins /\ d.dir = c.dir
                       /\ NoCommandSent
               /\ c.pc = "loginDone"
                    => /\ d = [c EXCEPT !.pc = "cmdWait", !.cmds = c.cmds + 1]
                       /\ sent' = sent + 1
                       /\ lastRequest'.light = LightIndex(c.dir)
               /\ d.cmds > c.cmds => c.pc = "loginDone"
      ]_vars

\* a retry has just been sent by the then-callback of a login that failed
C2_Witness ==
    /\ event.op = "loginThen"
    /\ \E i \in ChainIds : chains[i].pc = "cmdWait" /\ chains[i].cmds = 2 /\ chains[i].dir = "off"
    /\ webtoken = ""
    /\ lastRequest = Request("off", "")

----------------------------------------------------------------------------
(* C3 *)

\* C3: getOn hands the callback the value of the most recent setOn (false
\* before the first) and sends no request; only setOn changes the commanded
\* state.
C3_GetOnReturnsLastSet ==
    /\ [](lightOn = lastSet)
    /\ [][/\ event'.op = "getOn"
               => /\ event'.arg = BoolText(lastSet)
                  /\ chains' = chains
                  /\ NoCommandSent
          /\ event'.op # "setOn" => lightOn' = lightOn
         ]_vars

\* getOn answers true after the retried 'on' command of the only toggle ended
C3_Witness ==
    /\ event = Event("getOn", "true")
    /\ Toggles = 1 /\ chains[2] = Finished
    /\ sent = 2

----------------------------------------------------------------------------
(* C4 *)

\* C4: when the 'on' command of a toggle is answered "0", or the 'off'
\* command "1", the chain ends there: no login is started, no command is
\* sent again, the commanded state is not touched, and it is the value the
\* toggle asked for when that toggle is the most recent one.
C4_OtherDigitEndsTheToggle ==
    [][\A i \in ChainIds :
         LET c == chains[i]
         IN  (/\ c.pc = "cmdWait" /\ Stepped(i) /\ event'.op = "cmdResponse"
              /\ \/ c.dir = "on" /\ event'.arg = "0"
                 \/ c.dir = "off" /\ event'.arg = "1")
             => /\ chains'[i] = Finished
                /\ NoLoginStarted
                /\ NoCommandSent
                /\ lightOn' = lightOn
                /\ i = Len(chains) => lightOn' = (c.dir = "on")
      ]_vars

\* setOn(true) was answered "0": the chain is over and getOn reports true
C4_Witness ==
    /\ event.op = "cmdResponse" /\ event.arg = "0"
    /\ Toggles = 1 /\ chains[2] = Finished
    /\ lightOn = TRUE
    /\ sent = 1

----------------------------------------------------------------------------
(* C5 *)

\* C5: a login whose POST and configuration GET both succeed, and whose page
\* has a webtoken element, leaves the token equal to that element's value,
\* whatever the token was.
C5_TokenIsPageValue ==
    (event.op = "loginGetResponse" /\ event.arg \in Tokens) => webtoken = event.arg

\* a re-login replaced the token t1, sent with the rejected command, by t2
C5_Witness ==
    /\ event = Event("loginGetResponse", "t2")
    /\ lastRequest.token = "t1"
    /\ webtoken = "t2"
    /\ \E i \in ChainIds : chains[i].pc = "loginDone"

----------------------------------------------------------------------------
(* C6 *)

----------------------------------------------------------------------------
(* C7 *)

\* C7 (as claimed): a configuration page without a webtoken element leaves
\* the token at its prior value and nothing is thrown.
C7_MissingElementKeepsToken ==
    [][(event'.op = "loginGetResponse" /\ event'.arg = Missing)
         => webtoken' = webtoken /\ uncaught' = FALSE]_vars

----------------------------------------------------------------------------
(* C8 *)

\* C8: the SET handler stores the value, sends the command and calls the
\* host callback in one job, so that whenever the answer (or the failure) of
\* a toggle's command is processed, the state was updated and the callback
\* was called before.
C8_CallbackBeforeResponse ==
    [][/\ Len(chains') > Len(chains)
            => LET n == chains'[Len(chains')]
               IN  /\ event'.op = "setOn"
                   /\ lightOn' = (n.dir = "on")
                   /\ n.cb /\ n.pc = "cmdWait"
       /\ \A i \in ChainIds : (IsCommand(chains[i]) /\ Stepped(i)) => chains[i].cb
      ]_vars

\* getOn would report true while the 'on' command has failed
C8_Witness ==
    /\ event.op = "cmdError"
    /\ Toggles = 1 /\ chains[2] = Finished
    /\ lightOn = TRUE

----------------------------------------------------------------------------
(* C9 *)

\* C9: an answer to a command that is not "Restricted Access" (so also one
\* that is neither a success digit nor "Restricted Access") ends the chain:
\* no login, no further command, nothing thrown, token and commanded state
\* as before.
C9_OtherBodyEndsTheToggle ==
    [][\A i \in ChainIds :
         (/\ chains[i].pc = "cmdWait" /\ Stepped(i) /\ event'.op = "cmdResponse"
          /\ event'.arg # Restricted)
         => /\ chains'[i] = Finished
            /\ NoLoginStarted
            /\ NoCommandSent
            /\ uncaught' = FALSE
            /\ webtoken' = webtoken
            /\ lightOn' = lightOn
      ]_vars

\* a body that is no digit ended the retried command of a toggle
C9_Witness ==
    /\ event.op = "cmdResponse" /\ event.arg = "Error"
    /\ Toggles = 1 /\ chains[2] = Finished
    /\ sent = 2
    /\ webtoken = "t1"

----------------------------------------------------------------------------
(* C10 *)

\* C10: a network error on a command request ends the chain: no login, no
\* retry, nothing thrown, token, cookie jar and commanded state as before.
C10_CommandErrorIsSwallowed ==
    [][event'.op = "cmdError"
         => /\ \A i \in ChainIds :
                 Stepped(i) => chains[i].pc = "cmdWait" /\ chains'[i] = Finished
            /\ NoLoginStarted
            /\ NoCommandSent
            /\ uncaught' = FALSE
            /\ webtoken' = webtoken
            /\ cookieJar' = cookieJar
            /\ lightOn' = lightOn
      ]_vars

\* the command of a session with token and cookie failed
C10_Witness ==
    /\ event.op = "cmdError"
    /\ webtoken = "t1"
    /\ cookieJar = "s1"
    /\ lastRequest = Request("on", "t1")
    /\ lightOn = TRUE

----------------------------------------------------------------------------
(* C11 *)

\* C11 (as claimed, for the login the constructor starts, while no toggle has
\* been made): a login that fails on the POST or on the configuration GET
\* leaves token and cookie jar as they were when it started, here as the
\* constructor set them, also when the POST had succeeded.
C11_FailedLoginKeepsSession ==
    (/\ Toggles = 0
     /\ chains[1] = Finished
     /\ event.op \in {"loginPostError", "loginGetError"})
    => webtoken = "" /\ cookieJar = NoCookie

----------------------------------------------------------------------------
(* C12 *)

\* the step handles the answer to a command of chain i
Answered(i) == chains[i].pc = "cmdWait" /\ Stepped(i) /\ event'.op = "cmdResponse"

\* C12 (as claimed): the success branch is taken exactly when the body is the
\* digit sent as light index: "0" for turning on, "1" for turning off.
C12_SuccessOnLightIndex ==
    [][\A i \in ChainIds :
         Answered(i) =>
           (event'.log = LogLine("success")
              <=> \/ chains[i].dir = "on" /\ event'.arg = "0"
                  \/ chains[i].dir = "off" /\ event'.arg = "1")
      ]_vars

\* C12 (amended): the success branch is taken exactly when the body equals,
\* by JavaScript's ==, 1 for turning on (light=0 is sent) and 0 for turning
\* off (light=1 is sent): among the bodies "0", "1", "", "Restricted Access"
\* and "Error", on "1" for turning on, and on "0" and on the empty body for
\* turning off.
C12_SuccessOnOppositeDigit ==
    [][\A i \in ChainIds :
         Answered(i) =>
           (event'.log = LogLine("success")
              <=> \/ chains[i].dir = "on" /\ event'.arg = "1"
                  \/ chains[i].dir = "off" /\ event'.arg \in {"0", ""})
      ]_vars

\* setOn(true), sent with light=0, was answered "1": 'Light Turned On'
C12_Witness ==
    /\ event.op = "cmdResponse" /\ event.arg = "1" /\ event.log = LogLine("success")
    /\ lastRequest.light = 0
    /\ Toggles = 1 /\ chains[2] = Finished
    /\ lightOn = TRUE

----------------------------------------------------------------------------
(* C13 *)

\* the initial state of SpecRace, but for the count of requests, is a state
\* the program reaches from its construction
RaceStartReached ==
    /\ lightOn = FALSE /\ webtoken = "t1" /\ cookieJar = "s1"
    /\ chains = OverlappingToggles
    /\ lastSet = FALSE /\ lastRequest = Request("off", "t1")
    /\ uncaught = FALSE /\ event = Event("setOn", "false")

\* C13: logins do not exclude each other.  A toggle whose command is answered
\* "Restricted Access" starts its own login, whether or not another login is
\* in flight; every login whose page arrives writes the token, and nothing
\* else does, so that the token is the one of the login that completed last.
C13_LoginsOverlapLastWriterWins ==
    [][/\ \A i \in ChainIds :
            (Answered(i) /\ event'.arg = Restricted)
            => chains'[i] = [chains[i] EXCEPT !.pc = "postWait", !.logins = @ + 1]
       /\ event'.op = "loginGetResponse" => webtoken' = Val(event'.arg)
       /\ event'.op # "loginGetResponse" => webtoken' = webtoken
      ]_vars

\* the logins of both toggles are in flight at once
C13_Witness ==
    /\ chains[2].dir = "on" /\ chains[2].pc = "getWait" /\ chains[2].logins = 1
    /\ chains[3].dir = "off" /\ chains[3].pc = "getWait" /\ chains[3].logins = 1

----------------------------------------------------------------------------
(* C14 *)

LoginFailed == event.op \in {"loginPostError", "loginGetError"}

\* every command request carries the token held when it is sent, and a retry
\* after a login whose page arrived carries the value that login wrote
SendsCurrentToken ==
    /\ sent' > sent => lastRequest'.token = webtoken /\ webtoken' = webtoken
    /\ (event'.op = "loginThen" /\ event.op = "loginGetResponse")
       => lastRequest'.token = Val(event.arg)

\* C14 (as claimed): every command request carries the token held at send
\* time; the retry after a successful re-login carries the new token, and the
\* retry after a failed re-login carries the token of the request the device
\* just rejected (with one toggle, that is the last request sent; stated
\* for tokens that came from a page holding the element).
C14_RetryAfterFailedLoginRepeatsToken ==
    [][/\ SendsCurrentToken
       /\ (event'.op = "loginThen" /\ LoginFailed /\ Toggles = 1 /\ webtoken # Undefined)
          => lastRequest'.token = lastRequest.token
      ]_vars

\* C14 (amended): every command request carries the token held at send time;
\* the retry after a successful re-login carries the new token, and the retry
\* after a failed re-login carries the token held then, whether or not that
\* is the token of the rejected request.
C14_RetryCarriesCurrentToken ==
    [][/\ SendsCurrentToken
       /\ (event'.op = "loginThen" /\ LoginFailed)
          => lastRequest'.token = webtoken
      ]_vars

\* setOn(true) was sent with the empty token, the constructor's login wrote
\* "t1", the re-login of the rejected toggle failed, the retry carried "t1"
C14_Witness ==
    /\ event.op = "loginThen"
    /\ Toggles = 1 /\ chains[1] = Finished
    /\ chains[2].cmds = 2 /\ chains[2].logins = 1
    /\ cookieJar = NoCookie
    /\ lastRequest = Request("on", "t1")

----------------------------------------------------------------------------
(* C15 *)

\* C15: a toggle keeps the direction of its setOn call until it ends, and its
\* retry re-issues that direction: the request sent by the then-callback has
\* the light index of the toggle that was answered "Restricted Access",
\* whatever lightOn holds then, and does not touch lightOn.
C15_RetryKeepsDirection ==
    [][\A i \in ChainIds :
         /\ (IsCommand(chains[i]) /\ chains'[i] # Finished)
            => chains'[i].dir = chains[i].dir
         /\ (chains[i].pc = "loginDone" /\ Stepped(i))
            => /\ event'.op = "loginThen"
               /\ lastRequest'.light = LightIndex(chains[i].dir)
               /\ lightOn' = lightOn
      ]_vars

\* setOn(true) was rejected, setOn(false) arrived during the re-login, and
\* the retry sent 'on': the last command sent is the opposite of what getOn
\* returns
C15_Witness ==
    /\ event.op = "loginThen"
    /\ lastRequest.light = LightIndex("on")
    /\ lightOn = FALSE
    /\ Toggles = 2
    /\ chains[2].dir = "on" /\ chains[2].pc = "cmdWait" /\ chains[2].cmds = 2

----------------------------------------------------------------------------
(* C16 *)

\* C16: commands are not gated on the constructor's login.  The token is ""
\* at construction and stays "" until the page of a login arrives; while the
\* constructor's login is in flight the SET handler accepts either value, and
\* every setOn sends its request at once, with the token held then (so the
\* empty one before any login has completed).
C16_CommandsNotGatedOnLogin ==
    [][/\ event.op = "constructor" => webtoken = ""
       /\ (webtoken = "" /\ event'.op # "loginGetResponse") => webtoken' = ""
       /\ (chains[1].pc \in {"postWait", "getWait"} /\ ~MicrotaskQueued
             /\ Committed < MaxRequests)
          => ENABLED SetOn(TRUE) /\ ENABLED SetOn(FALSE)
       /\ event'.op = "setOn"
          => /\ sent' = sent + 1
             /\ lastRequest'.token = webtoken
             /\ chains'[Len(chains')].pc = "cmdWait"
      ]_vars

\* setOn(true) arrived while the constructor's POST was unanswered and sent
\* light=0 with the empty token
C16_Witness ==
    /\ event = Event("setOn", "true")
    /\ chains[1].pc = "postWait"
    /\ Toggles = 1 /\ chains[2].pc = "cmdWait"
    /\ webtoken = ""
    /\ lastRequest = Request("on", "")

----------------------------------------------------------------------------
(* C17 *)

OtherThanExtraction ==
    {"getOn", "setOn", "cmdResponse", "cmdError", "loginThen",
     "loginPostResponse", "loginPostError", "loginGetError"}

====
